---- MODULE Spec2Model ----
(***************************************************************************)
(* Model of safe_authenticator/src/app_auth.rs: the app authentication     *)
(* routines (app_state, update_access_container, authenticate,             *)
(* authenticated_app, authenticate_new_app, check_revocation).             *)
(*                                                                         *)
(* Every network call of a request is one atomic step; the code that runs  *)
(* between two network calls (ready futures, pure transforms, matches)     *)
(* belongs to the step of the network call that precedes it.  The          *)
(* collaborators that are not part of app_auth.rs (config, access          *)
(* container, key list, container provisioning) are modelled from their    *)
(* documented interface.                                                   *)
(***************************************************************************)
EXTENDS Integers, FiniteSets, Sequences, TLC

\* ---------------------------------------------------------------- bounds
\* authenticate calls in a run, and collaborator failures in a run; they
\* bound every counter of the model (keys minted, versions written)
MaxRequests == 2
MaxFaults == 1

\* ------------------------------------------------------------- constants
Apps == {"a1", "a2"}
Slots == {"r1", "r2"}
NoKey == 0
NoApp == "none"

FullAccess == {"Read", "Insert", "Update", "Delete", "ManagePermissions"}

\* Option<T> as a sequence of length at most one
None == << >>
Some(x) == << x >>

EmptyEntry == [n \in {} |-> 0]

\* the requests that arrive (AuthReq: app id, containers, app_container)
AuthReq(a, c, ac) == [app |-> a, containers |-> c, app_container |-> ac]
Photos == [n \in {"photos"} |-> {"Read", "Insert"}]
Docs == [n \in {"docs"} |-> {"Read"}]
AuthReqs == { AuthReq("a1", EmptyEntry, FALSE), AuthReq("a1", Photos, TRUE) }
\* "a2" is a bystander: an app that was authenticated earlier, or never
Bystander == AuthReq("a2", Docs, FALSE)

\* Result<T, AuthError>
Ok(v) == [ok |-> TRUE, val |-> v, err |-> "none"]
Err(e) == [ok |-> FALSE, val |-> 0, err |-> e]

\* ------------------------------------------------------------------ state
VARIABLES
    registry,         \* config Apps: app id -> AppKeys (NoKey when absent)
    revocationQueue,  \* config revocation queue
    accessContainer,  \* app id -> [st, ver, entry]
    authKeys,         \* MaidManagers' authorised keys
    authKeysVersion,  \* ... and their version
    nextKey,          \* keys minted so far + 1 (AppKeys::random)
    started,          \* number of authenticate calls so far
    faults,           \* number of infrastructure failures so far
    rq,               \* per request: position and locals
    issued,           \* app id -> keys ever handed out in an AuthGranted
    partial           \* app id -> a request that inserted the app failed in
                      \* the register pipeline, with no other request in
                      \* flight at its end, and no request has begun since

vars == << registry, revocationQueue, accessContainer, authKeys,
           authKeysVersion, nextKey, started, faults, rq, issued, partial >>

NoEntry == [st |-> "none", ver |-> 0, entry |-> EmptyEntry]

IdleReq ==
    [ pc |-> "idle", app |-> NoApp, containers |-> EmptyEntry,
      app_container |-> FALSE, joined |-> {},
      apps |-> [a \in Apps |-> NoKey], app_state |-> "none", keys |-> NoKey,
      version |-> 0, perms |-> EmptyEntry, res |-> Err("none"), target |-> 0,
      result |-> "none", failed_at |-> "none", granted |-> NoKey,
      effects |-> {}, solo |-> TRUE, after_partial |-> "no",
      met_failure |-> FALSE ]

Running(q) == q.pc \notin {"idle", "done"}

\* ------------------------------------------------- external collaborators

\* access_container::access_container_entry
access_container_entry(m) ==
    IF m.st = "none" THEN Err("NoSuchEntry")
    ELSE Ok([version |-> m.ver,
             perms |-> IF m.st = "live" THEN Some(m.entry) ELSE None])

\* access_container::put_access_container_entry: succeeds iff `version` is
\* the successor of the stored version (0 for a new entry)
put_version_ok(m, version) ==
    IF m.st = "none" THEN version = 0 ELSE version = m.ver + 1

\* config::insert_app: fails when the config already holds the app
config_insert_app(apps, app_id, keys) ==
    IF apps[app_id] # NoKey THEN Err("AppExists")
    ELSE Ok([apps EXCEPT ![app_id] = keys])

\* recovery::ins_auth_key: succeeds iff `version` is the successor of the
\* version of the key list
ins_auth_key_ok(current, version) == version = current + 1

\* ipc::update_container_perms: container name -> (MDataInfo, permissions)
ContainerInfo(name) == << "md", name >>
update_container_perms(permissions) ==
    [n \in DOMAIN permissions |->
        [info |-> ContainerInfo(n), access |-> permissions[n]]]

\* app_container::fetch: the app's dedicated container, created if absent
app_container_fetch(app_id) == << "md", "apps/" \o app_id >>

\* ------------------------------------------------------ app_auth.rs, pure

\* mutants of app_state: a failed read counts as revoked; an app that is not
\* in the config counts as revoked
app_state_error_is_revoked(apps, app_id, res) ==
    IF apps[app_id] # NoKey THEN
        CASE res.ok /\ res.val.perms # None -> Ok("Authenticated")
          [] OTHER -> Ok("Revoked")
    ELSE Ok("NotAuthenticated")
app_state_absent_is_revoked(apps, app_id, res) ==
    IF apps[app_id] # NoKey THEN
        CASE res.ok /\ res.val.perms # None -> Ok("Authenticated")
          [] res.ok /\ res.val.perms = None -> Ok("Revoked")
          [] ~res.ok /\ res.err = "NoSuchEntry" -> Ok("Revoked")
          [] OTHER -> Err(res.err)
    ELSE Ok("Revoked")

\* mutant of app_state: an entry that is present counts as revoked
app_state_present_is_revoked(apps, app_id, res) ==
    IF apps[app_id] # NoKey THEN
        CASE res.ok -> Ok("Revoked")
          [] ~res.ok /\ res.err = "NoSuchEntry" -> Ok("Revoked")
          [] OTHER -> Err(res.err)
    ELSE Ok("NotAuthenticated")

\* app_state, lines 50-77: `res` is the result of access_container_entry,
\* looked at only when the app is in the config
app_state(apps, app_id, res) ==
    IF apps[app_id] # NoKey THEN
        CASE res.ok /\ res.val.perms # None -> Ok("Authenticated")
          [] res.ok /\ res.val.perms = None -> Ok("Revoked")
          [] ~res.ok /\ res.err = "NoSuchEntry" -> Ok("Revoked")
          [] OTHER -> Err(res.err)
    ELSE Ok("NotAuthenticated")

\* insert_app_container, lines 80-95
insert_app_container(permissions, app_id, app_container_info) ==
    [n \in DOMAIN permissions \cup {"apps/" \o app_id} |->
        IF n = "apps/" \o app_id
        THEN [info |-> app_container_info, access |-> FullAccess]
        ELSE permissions[n]]

\* mutants of update_access_container: a new entry is written at version 1;
\* an existing entry is written at the version read
update_access_container_new_at_1(res) ==
    CASE res.ok -> Ok(res.val.version + 1)
      [] ~res.ok /\ res.err = "NoSuchEntry" -> Ok(1)
      [] OTHER -> Err(res.err)
update_access_container_same_version(res) ==
    CASE res.ok -> Ok(res.val.version)
      [] ~res.ok /\ res.err = "NoSuchEntry" -> Ok(0)
      [] OTHER -> Err(res.err)

\* mutant of update_access_container: any failed read counts as no entry
update_access_container_swallows(res) ==
    CASE res.ok -> Ok(res.val.version + 1)
      [] OTHER -> Ok(0)

\* update_access_container, lines 112-121: the version to write at
update_access_container(res) ==
    CASE res.ok -> Ok(res.val.version + 1)
      [] ~res.ok /\ res.err = "NoSuchEntry" -> Ok(0)
      [] OTHER -> Err(res.err)

\* a request is over: its locals are dropped
Done(q) ==
    [q EXCEPT !.pc = "done", !.joined = {}, !.apps = [a \in Apps |-> NoKey],
              !.keys = NoKey, !.version = 0, !.perms = EmptyEntry,
              !.res = Err("none")]

\* a request ends with an error
Fail(q, at, e) ==
    Done([q EXCEPT !.result = e, !.failed_at = at])

\* AuthGranted { app_keys: app_keys_auth, .. }, lines 241-245 and 301-305
AuthGranted(q, local_ok) ==
    IF local_ok
    THEN Done([q EXCEPT !.result = "AuthGranted", !.granted = q.keys])
    ELSE Fail(q, "auth_granted", "Infra")

\* mutant of authenticated_app: the dedicated container is always updated
authenticated_app_always_container(q, local_ok) ==
    IF ~local_ok THEN Fail(q, "bootstrap_config", "Infra")
    ELSE [q EXCEPT !.pc = "regrant_dir"]

\* authenticated_app, lines 202-248, up to its first network call
authenticated_app(q, local_ok) ==
    IF ~local_ok THEN Fail(q, "bootstrap_config", "Infra")
    ELSE IF q.app_container THEN [q EXCEPT !.pc = "regrant_dir"]
    ELSE [q EXCEPT !.pc = "access_container"]

\* mutant of authenticate_new_app: the key is not put into the key list
authenticate_new_app_skips_key(q) == [q EXCEPT !.pc = "uac_dir"]

\* authenticate_new_app, lines 257-277, up to its first network call
authenticate_new_app(q) == [q EXCEPT !.pc = "list_auth_keys"]

\* mutant of dispatch: a revoked app is treated as a registered one
dispatch_revoked_is_registered(q, local_ok) ==
    IF q.app_state \in {"Authenticated", "Revoked"}
    THEN authenticated_app(q, local_ok)
    ELSE authenticate_new_app(q)

\* authenticate, lines 184-196
dispatch(q, local_ok) ==
    IF q.app_state = "Authenticated"
    THEN authenticated_app(q, local_ok)
    ELSE authenticate_new_app(q)

\* mutants of prepare: a revoked app gets new keys; a revoked app is
\* inserted into the config again
prepare_mints(q, st, fresh, local_ok) ==
    IF st = "NotAuthenticated" THEN
        IF local_ok
        THEN [q EXCEPT !.pc = "insert_app", !.app_state = st, !.keys = fresh,
                       !.apps = [a \in Apps |-> NoKey]]
        ELSE Fail([q EXCEPT !.app_state = st], "owner_key", "Infra")
    ELSE IF q.apps[q.app] # NoKey
    THEN dispatch([q EXCEPT !.app_state = st,
                            !.keys = IF st = "Revoked" THEN fresh
                                     ELSE q.apps[q.app],
                            !.apps = [a \in Apps |-> NoKey]], local_ok)
    ELSE Fail([q EXCEPT !.app_state = st], "prepare", "Unexpected")
prepare_reinserts(q, st, fresh, local_ok) ==
    IF st \in {"NotAuthenticated", "Revoked"} THEN
        IF local_ok
        THEN [q EXCEPT !.pc = "insert_app", !.app_state = st,
                       !.keys = IF st = "Revoked" THEN q.apps[q.app] ELSE fresh,
                       !.apps = [a \in Apps |-> NoKey]]
        ELSE Fail([q EXCEPT !.app_state = st], "owner_key", "Infra")
    ELSE dispatch([q EXCEPT !.app_state = st, !.keys = q.apps[q.app],
                            !.apps = [a \in Apps |-> NoKey]], local_ok)

\* authenticate, lines 154-183: `fresh` is the result of AppKeys::random
\* mutant of prepare: a new app goes on without the config insert
prepare_skips_insert(q, st, fresh, local_ok) ==
    IF st = "NotAuthenticated" THEN
        IF local_ok
        THEN authenticate_new_app(
                 [q EXCEPT !.app_state = st, !.keys = fresh,
                           !.apps = [a \in Apps |-> NoKey]])
        ELSE Fail([q EXCEPT !.app_state = st], "owner_key", "Infra")
    ELSE IF q.apps[q.app] # NoKey
    THEN dispatch([q EXCEPT !.app_state = st, !.keys = q.apps[q.app],
                            !.apps = [a \in Apps |-> NoKey]], local_ok)
    ELSE Fail([q EXCEPT !.app_state = st], "prepare", "Unexpected")

prepare(q, st, fresh, local_ok) ==
    IF st = "NotAuthenticated" THEN
        IF local_ok
        THEN [q EXCEPT !.pc = "insert_app", !.app_state = st, !.keys = fresh,
                       !.apps = [a \in Apps |-> NoKey]]
        ELSE Fail([q EXCEPT !.app_state = st], "owner_key", "Infra")
    ELSE IF q.apps[q.app] # NoKey
    THEN dispatch([q EXCEPT !.app_state = st, !.keys = q.apps[q.app],
                            !.apps = [a \in Apps |-> NoKey]], local_ok)
    ELSE Fail([q EXCEPT !.app_state = st], "prepare", "Unexpected")

\* authenticate, lines 146-153: both joined futures are done
resolved(q, fresh, local_ok) ==
    IF q.joined # {"apps", "queue"} THEN q
    ELSE IF q.apps[q.app] = NoKey
    THEN prepare(q, app_state(q.apps, q.app, Err("none")).val, fresh, local_ok)
    ELSE [q EXCEPT !.pc = "app_state_dir"]

\* mutant of check_revocation: the queue is not looked at
check_revocation_passes(queue, app_id) == Ok(0)

\* check_revocation, lines 310-325
check_revocation(queue, app_id) ==
    IF app_id \in queue THEN Err("PendingRevocation") ELSE Ok(0)

\* authenticate_new_app, lines 286-296
container_step(q) ==
    IF q.app_container THEN [q EXCEPT !.pc = "fetch"]
    ELSE [q EXCEPT !.pc = "uac_dir"]

\* mutant of permissions_step: the requested containers are dropped
permissions_step_drops(q) == container_step([q EXCEPT !.perms = EmptyEntry])

\* authenticate_new_app, lines 279-285
permissions_step(q) ==
    IF q.containers = EmptyEntry
    THEN container_step([q EXCEPT !.perms = EmptyEntry])
    ELSE [q EXCEPT !.pc = "update_container_perms"]

\* ---------------------------------------------------------------- steps

\* the stores after `reqs` (a sequence of requests for distinct apps) have
\* each been authenticated, one after the other, on a fresh system: the
\* i-th app holds the i-th key, registered at key list version i, and its
\* entry was written at version 0
Index(reqs, a) == CHOOSE i \in 1..Len(reqs) : reqs[i].app = a
Known(reqs) == { reqs[i].app : i \in 1..Len(reqs) }
EntryOf(req) ==
    LET perms == IF req.containers = EmptyEntry THEN EmptyEntry
                 ELSE update_container_perms(req.containers) IN
    IF req.app_container
    THEN insert_app_container(perms, req.app, app_container_fetch(req.app))
    ELSE perms

InitStores(reqs) ==
    /\ registry = [a \in Apps |->
                     IF a \in Known(reqs) THEN Index(reqs, a) ELSE NoKey]
    /\ accessContainer =
          [a \in Apps |->
              IF a \in Known(reqs)
              THEN [st |-> "live", ver |-> 0,
                    entry |-> EntryOf(reqs[Index(reqs, a)])]
              ELSE NoEntry]
    /\ authKeys = 1..Len(reqs)
    /\ authKeysVersion = Len(reqs)
    /\ nextKey = Len(reqs) + 1

Init ==
    /\ \E reqs \in { << >>, << Bystander >>,
                      << AuthReq("a1", Photos, FALSE) >>,
                      << Bystander, AuthReq("a1", Photos, FALSE) >> },
          overtaken \in BOOLEAN :
            /\ InitStores(reqs)
            \* the request that registered a1 may have run while another
            \* one, which had inserted a1 into the config, was on its way
            \* to fail at the key list: the stores are the same, and one
            \* of the requests of the run is spent
            /\ partial = [a \in Apps |->
                            /\ overtaken
                            /\ a \in Known(reqs) /\ a # Bystander.app]
            /\ started = IF \E a \in Apps : partial[a] THEN 1 ELSE 0
    /\ revocationQueue = {}
    /\ faults = 0
    /\ rq = [r \in Slots |-> IdleReq]
    /\ issued = [a \in Apps |-> {}]

\* the steps of the register pipeline, authenticate_new_app lines 273-299
PipelineSteps ==
    { "list_auth_keys", "ins_auth_key", "update_container_perms", "fetch",
      "uac_read", "uac_put" }

\* the other requests in flight have been interleaved with
Disturb(r, q) ==
    [s \in Slots |->
        IF s # r /\ Running(q[s]) THEN [q[s] EXCEPT !.solo = FALSE] ELSE q[s]]

\* request r moves to `new`; keys are minted when the step enters insert_app
StepWith(r, new, fault) ==
    /\ fault => faults < MaxFaults
    /\ faults' = IF fault THEN faults + 1 ELSE faults
    /\ rq' = Disturb(r, [rq EXCEPT ![r] = new])
    /\ nextKey' = IF new.pc = "insert_app" THEN nextKey + 1 ELSE nextKey
    /\ issued' = IF new.result = "AuthGranted"
                 THEN [issued EXCEPT ![new.app] = @ \cup {new.granted}]
                 ELSE issued
    /\ partial' = IF new.pc = "done" /\ new.failed_at \in PipelineSteps
                       /\ "reg" \in new.effects
                       /\ \A s \in Slots \ {r} : ~Running(rq[s])
                  THEN [partial EXCEPT ![new.app] = TRUE]
                  ELSE partial
    /\ UNCHANGED started

\* a step of request r; a request that ends with an infrastructure error
\* has met a failure of a collaborator
Step(r, new) == StepWith(r, new, new.result = "Infra")

\* what access_container(client) can answer: the descriptor, or an error,
\* which may be the no-such-entry error
DescriptorResults == {"ok", "Infra", "NoSuchEntry"}

Stores == << registry, revocationQueue, accessContainer, authKeys, authKeysVersion >>

\* authenticate, lines 137-145: a request arrives
Authenticate(r, a, c, ac) ==
    /\ ~Running(rq[r])
    /\ (\A s \in Slots : ~Running(rq[s])) => r = "r1"
    /\ started < MaxRequests
    /\ started' = started + 1
    /\ rq' = [s \in Slots |->
                IF s = r
                THEN [IdleReq EXCEPT !.pc = "resolve", !.app = a,
                                     !.containers = c, !.app_container = ac,
                                     !.after_partial =
                                        IF ~partial[a] THEN "no"
                                        ELSE IF accessContainer[a].st = "live"
                                        THEN "entry" ELSE "no_entry"]
                ELSE IF Running(rq[s]) THEN rq[s] ELSE IdleReq]
    /\ partial' = [partial EXCEPT ![a] = FALSE]
    /\ UNCHANGED << Stores, nextKey, faults, issued >>

\* config::list_apps, line 146
ListApps(r, net_ok, local_ok) ==
    LET q == rq[r] IN
    /\ q.pc = "resolve"
    /\ "apps" \notin q.joined
    /\ Step(r, IF net_ok
               THEN resolved([q EXCEPT !.apps = registry,
                                       !.joined = @ \cup {"apps"}],
                             nextKey, local_ok)
               ELSE Fail(q, "list_apps", "Infra"))
    /\ UNCHANGED Stores

\* check_revocation, line 147
CheckRevocation(r, net_ok, local_ok) ==
    LET q == rq[r]
        guard == check_revocation(revocationQueue, q.app) IN
    /\ q.pc = "resolve"
    /\ "queue" \notin q.joined
    /\ Step(r, IF ~net_ok THEN Fail(q, "check_revocation", "Infra")
               ELSE IF ~guard.ok THEN Fail(q, "check_revocation", guard.err)
               ELSE resolved([q EXCEPT !.joined = @ \cup {"queue"}],
                             nextKey, local_ok))
    /\ UNCHANGED Stores

\* app_state's read of the access container entry, lines 56-72, and what
\* authenticate does with the state, lines 154-196
AppStateRead(r, net_ok, local_ok) ==
    LET q == rq[r]
        res == IF net_ok THEN access_container_entry(accessContainer[q.app])
               ELSE Err("Infra")
        st == app_state(q.apps, q.app, res) IN
    /\ q.pc = "app_state"
    /\ Step(r, IF st.ok THEN prepare(q, st.val, nextKey, local_ok)
               ELSE Fail(q, "app_state", st.err))
    /\ UNCHANGED Stores

\* app_state's access_container(client), line 56: with the descriptor the
\* entry is asked for (lines 57-59); its error goes to the match of lines
\* 60-72 as the result of the lookup
AppStateAccessContainer(r, dir, local_ok) ==
    LET q == rq[r]
        st == app_state(q.apps, q.app, Err(dir))
        masked == dir = "NoSuchEntry"
        new == IF dir = "ok" THEN [q EXCEPT !.pc = "app_state"]
               ELSE IF st.ok
               THEN prepare([q EXCEPT !.met_failure = masked], st.val,
                            nextKey, local_ok)
               ELSE Fail(q, "app_state", st.err) IN
    /\ q.pc = "app_state_dir"
    /\ StepWith(r, new, new.result = "Infra" \/ (dir # "ok" /\ masked))
    /\ UNCHANGED Stores

\* config::insert_app(app), lines 166-168
InsertApp(r, net_ok) ==
    LET q == rq[r]
        res == IF net_ok THEN config_insert_app(registry, q.app, q.keys)
               ELSE Err("Infra") IN
    /\ q.pc = "insert_app"
    /\ IF res.ok
       THEN /\ registry' = res.val
            /\ Step(r, dispatch([q EXCEPT !.effects = @ \cup {"reg"}], TRUE))
       ELSE /\ Step(r, Fail(q, "insert_app", res.err))
            /\ UNCHANGED registry
    /\ UNCHANGED << revocationQueue, accessContainer, authKeys, authKeysVersion >>

\* client.list_auth_keys_and_version, lines 273-275
ListAuthKeys(r, net_ok) ==
    LET q == rq[r] IN
    /\ q.pc = "list_auth_keys"
    /\ Step(r, IF net_ok
               THEN [q EXCEPT !.pc = "ins_auth_key", !.version = authKeysVersion]
               ELSE Fail(q, "list_auth_keys", "Infra"))
    /\ UNCHANGED Stores

\* recovery::ins_auth_key(sign_pk, version + 1), lines 276-285
InsAuthKey(r, net_ok) ==
    LET q == rq[r] IN
    /\ q.pc = "ins_auth_key"
    /\ IF ~net_ok
       THEN /\ Step(r, Fail(q, "ins_auth_key", "Infra"))
            /\ UNCHANGED << authKeys, authKeysVersion >>
       ELSE IF ~ins_auth_key_ok(authKeysVersion, q.version + 1)
       THEN /\ Step(r, Fail(q, "ins_auth_key", "VersionConflict"))
            /\ UNCHANGED << authKeys, authKeysVersion >>
       ELSE /\ authKeys' = authKeys \cup {q.keys}
            /\ authKeysVersion' = q.version + 1
            /\ Step(r, permissions_step([q EXCEPT !.effects = @ \cup {"key"}]))
    /\ UNCHANGED << registry, revocationQueue, accessContainer >>

\* update_container_perms, lines 282-284
UpdateContainerPerms(r, net_ok) ==
    LET q == rq[r] IN
    /\ q.pc = "update_container_perms"
    /\ Step(r, IF net_ok
               THEN container_step(
                        [q EXCEPT !.perms = update_container_perms(q.containers),
                                  !.effects = @ \cup {"perms"}])
               ELSE Fail(q, "update_container_perms", "Infra"))
    /\ UNCHANGED Stores

\* authenticated_app without app_container: access_container(&c4), line 238,
\* and the AuthGranted built from its result, lines 239-246
AccessContainer(r, dir, local_ok) ==
    LET q == rq[r] IN
    /\ q.pc = "access_container"
    /\ StepWith(r, IF dir = "ok" THEN AuthGranted(q, local_ok)
                   ELSE Fail(q, "access_container", dir),
                dir # "ok" \/ ~local_ok)
    /\ UNCHANGED Stores

\* authenticated_app's read of the entry, lines 220-226
RegrantRead(r, net_ok) ==
    LET q == rq[r]
        res == IF net_ok THEN access_container_entry(accessContainer[q.app])
               ELSE Err("Infra") IN
    /\ q.pc = "regrant_read"
    /\ Step(r, IF res.ok
               THEN [q EXCEPT !.pc = "fetch",
                              !.perms = IF res.val.perms = None THEN EmptyEntry
                                        ELSE res.val.perms[1]]
               ELSE Fail(q, "regrant_read", res.err))
    /\ UNCHANGED Stores

\* authenticated_app's access_container(&c2), line 220, before the read of
\* the entry
RegrantAccessContainer(r, dir) ==
    LET q == rq[r] IN
    /\ q.pc = "regrant_dir"
    /\ StepWith(r, IF dir = "ok" THEN [q EXCEPT !.pc = "regrant_read"]
                   ELSE Fail(q, "regrant_read", dir),
                dir # "ok")
    /\ UNCHANGED Stores

\* mutant of FetchAppContainer: a failed registration takes its key back
FetchAppContainer_rolls_back(r, net_ok) ==
    LET q == rq[r] IN
    /\ q.pc = "fetch"
    /\ Step(r, IF net_ok
               THEN [q EXCEPT !.pc = "uac_dir",
                              !.perms = insert_app_container(
                                            q.perms, q.app,
                                            app_container_fetch(q.app))]
               ELSE Fail(q, "fetch", "Infra"))
    /\ IF ~net_ok /\ q.app_state # "Authenticated"
       THEN /\ authKeys' = authKeys \ {q.keys}
            /\ authKeysVersion' = authKeysVersion + 1
       ELSE UNCHANGED << authKeys, authKeysVersion >>
    /\ UNCHANGED << registry, revocationQueue, accessContainer >>

\* app_container::fetch and insert_app_container, lines 227-232 and 288-291
FetchAppContainer(r, net_ok) ==
    LET q == rq[r] IN
    /\ q.pc = "fetch"
    /\ Step(r, IF net_ok
               THEN [q EXCEPT !.pc = "uac_dir",
                              !.perms = insert_app_container(
                                            q.perms, q.app,
                                            app_container_fetch(q.app))]
               ELSE Fail(q, "fetch", "Infra"))
    /\ UNCHANGED Stores

\* update_access_container's read, lines 109-124
UacRead(r, net_ok) ==
    LET q == rq[r]
        res == IF net_ok THEN access_container_entry(accessContainer[q.app])
               ELSE Err("Infra")
        version == update_access_container(res) IN
    /\ q.pc = "uac_read"
    /\ Step(r, IF version.ok
               THEN [q EXCEPT !.pc = "uac_put", !.res = res,
                              !.target = version.val]
               ELSE Fail([q EXCEPT !.res = res], "uac_read", version.err))
    /\ UNCHANGED Stores

\* update_access_container's access_container(&c2), line 109, before the
\* read of the entry
UacAccessContainer(r, dir) ==
    LET q == rq[r] IN
    /\ q.pc = "uac_dir"
    /\ StepWith(r, IF dir = "ok" THEN [q EXCEPT !.pc = "uac_read"]
                   ELSE Fail(q, "uac_read", dir),
                dir # "ok")
    /\ UNCHANGED Stores

\* mutant of UacPut: after a version conflict the entry is read again
UacPut_retries(r, net_ok, local_ok) ==
    LET q == rq[r] IN
    /\ q.pc = "uac_put"
    /\ IF ~net_ok
       THEN /\ Step(r, Fail(q, "uac_put", "Infra"))
            /\ UNCHANGED accessContainer
       ELSE IF ~put_version_ok(accessContainer[q.app], q.target)
       THEN /\ Step(r, [q EXCEPT !.pc = "uac_dir"])
            /\ UNCHANGED accessContainer
       ELSE /\ accessContainer' =
                  [accessContainer EXCEPT ![q.app] =
                      [st |-> "live", ver |-> q.target, entry |-> q.perms]]
            /\ Step(r, AuthGranted([q EXCEPT !.effects = @ \cup {"man"}],
                                   local_ok))
    /\ UNCHANGED << registry, revocationQueue, authKeys, authKeysVersion >>

\* put_access_container_entry, lines 125-128, and the AuthGranted built from
\* its result, lines 239-246 and 300-306
UacPut(r, net_ok, local_ok) ==
    LET q == rq[r] IN
    /\ q.pc = "uac_put"
    /\ IF ~net_ok
       THEN /\ Step(r, Fail(q, "uac_put", "Infra"))
            /\ UNCHANGED accessContainer
       ELSE IF ~put_version_ok(accessContainer[q.app], q.target)
       THEN /\ Step(r, Fail(q, "uac_put", "VersionConflict"))
            /\ UNCHANGED accessContainer
       ELSE /\ accessContainer' =
                  [accessContainer EXCEPT ![q.app] =
                      [st |-> "live", ver |-> q.target, entry |-> q.perms]]
            /\ Step(r, AuthGranted([q EXCEPT !.effects = @ \cup {"man"}],
                                   local_ok))
    /\ UNCHANGED << registry, revocationQueue, authKeys, authKeysVersion >>

\* the revocation subsystem queues an app for revocation
EnqueueRevocation(a) ==
    /\ a \notin revocationQueue
    /\ revocationQueue' = revocationQueue \cup {a}
    /\ rq' = Disturb(NoApp, rq)
    /\ UNCHANGED << registry, accessContainer, authKeys, authKeysVersion,
                    nextKey, started, faults, issued, partial >>

\* the app's entry is removed from the access container: either the entry
\* is gone (hard) or it is left empty at the next version
RevokeApp(a, hard) ==
    /\ accessContainer[a].st = "live" \/ a \in revocationQueue
    /\ accessContainer' =
          [accessContainer EXCEPT ![a] =
              IF @.st # "live" THEN @
              ELSE IF hard THEN NoEntry
              ELSE [st |-> "tomb", ver |-> @.ver + 1, entry |-> EmptyEntry]]
    /\ revocationQueue' = revocationQueue \ {a}
    /\ rq' = Disturb(NoApp, rq)
    /\ UNCHANGED << registry, authKeys, authKeysVersion,
                    nextKey, started, faults, issued, partial >>

Next ==
    \/ \E r \in Slots, req \in AuthReqs :
            Authenticate(r, req.app, req.containers, req.app_container)
    \/ \E r \in Slots, n \in BOOLEAN, l \in BOOLEAN : ListApps(r, n, l)
    \/ \E r \in Slots, n \in BOOLEAN, l \in BOOLEAN : CheckRevocation(r, n, l)
    \/ \E r \in Slots, d \in DescriptorResults, l \in BOOLEAN :
            AppStateAccessContainer(r, d, l)
    \/ \E r \in Slots, n \in BOOLEAN, l \in BOOLEAN : AppStateRead(r, n, l)
    \/ \E r \in Slots, n \in BOOLEAN : InsertApp(r, n)
    \/ \E r \in Slots, n \in BOOLEAN : ListAuthKeys(r, n)
    \/ \E r \in Slots, n \in BOOLEAN : InsAuthKey(r, n)
    \/ \E r \in Slots, n \in BOOLEAN : UpdateContainerPerms(r, n)
    \/ \E r \in Slots, d \in DescriptorResults, l \in BOOLEAN :
            AccessContainer(r, d, l)
    \/ \E r \in Slots, d \in DescriptorResults : RegrantAccessContainer(r, d)
    \/ \E r \in Slots, n \in BOOLEAN : RegrantRead(r, n)
    \/ \E r \in Slots, n \in BOOLEAN : FetchAppContainer(r, n)
    \/ \E r \in Slots, d \in DescriptorResults : UacAccessContainer(r, d)
    \/ \E r \in Slots, n \in BOOLEAN : UacRead(r, n)
    \/ \E r \in Slots, n \in BOOLEAN, l \in BOOLEAN : UacPut(r, n, l)
    \/ \E a \in Apps \ {Bystander.app} : EnqueueRevocation(a)
    \/ \E a \in Apps \ {Bystander.app}, hard \in BOOLEAN : RevokeApp(a, hard)

Spec == Init /\ [][Next]_vars

\* ----------------------------------------------------------- properties

IsDone(r) == rq[r].pc = "done"
Granted(r) == IsDone(r) /\ rq[r].result = "AuthGranted"

\* request r takes a step
Moves(r) ==
    /\ Running(rq[r])
    /\ rq'[r].pc # rq[r].pc \/ rq'[r].joined # rq[r].joined

\* request r ends in this step
Ends(r) == Running(rq[r]) /\ rq'[r].pc = "done"

\* what app_state would answer now
AppStateNow(a) == app_state(registry, a, access_container_entry(accessContainer[a]))

\* both slots hold ended requests for one app that both found it
\* NotAuthenticated, and no collaborator failed
Raced(w, l) ==
    /\ w # l
    /\ IsDone(w) /\ IsDone(l)
    /\ rq[w].app = rq[l].app
    /\ rq[w].app_state = "NotAuthenticated"
    /\ rq[l].app_state = "NotAuthenticated"
    /\ rq[w].result \notin {"Infra", "NoSuchEntry"}
    /\ rq[l].result \notin {"Infra", "NoSuchEntry"}

\* C1 as stated: of two concurrent requests for one never-seen app, one is
\* granted after writing the entry at version 0 and the other fails with a
\* version conflict at the write of the entry.
C1_AsStated ==
    \A w \in Slots, l \in Slots :
        Raced(w, l) =>
            \E x \in {w, l}, y \in {w, l} :
                /\ x # y
                /\ rq[x].result = "AuthGranted" /\ rq[x].target = 0
                /\ rq[y].result = "VersionConflict"
                /\ rq[y].failed_at = "uac_put"

\* C1 amended: of two concurrent requests for one never-seen app (no third
\* request begun before both ended, no collaborator failure), exactly one is
\* granted, after writing the entry at version 0, and the other fails at the
\* insert into the config, which already holds the app, before it touches
\* the key list or the access container.
C1_OneWinsOtherFailsAtInsert ==
    \A w \in Slots, l \in Slots :
        Raced(w, l) =>
            \E x \in {w, l}, y \in {w, l} :
                /\ x # y
                /\ rq[x].result = "AuthGranted" /\ rq[x].target = 0
                /\ "man" \in rq[x].effects
                /\ rq[y].result = "AppExists"
                /\ rq[y].failed_at = "insert_app"
                /\ rq[y].effects = {}

C1_Witness ==
    /\ Raced("r1", "r2")
    /\ rq["r1"].result = "AuthGranted"
    /\ rq["r2"].result = "AppExists"

\* C2: a request that finds the app Revoked (a config record, no entry in
\* the access container) takes the register pipeline with the stored record:
\* it inserts nothing into the config, and the keys it grants are the keys
\* of the record, the only keys ever granted for the app.
C2_RevokedReusesKeys ==
    /\ [](\A r \in Slots :
            (Granted(r) /\ rq[r].app_state = "Revoked") =>
                /\ "reg" \notin rq[r].effects
                /\ {"key", "man"} \subseteq rq[r].effects
                /\ rq[r].granted = registry[rq[r].app]
                /\ issued[rq[r].app] = {rq[r].granted})
    /\ [][\A r \in Slots :
            (rq[r].pc = "app_state" /\ Moves(r)
                /\ rq[r].apps[rq[r].app] # NoKey
                /\ accessContainer[rq[r].app].st # "live"
                /\ rq'[r].result # "Infra") =>
                    rq'[r].app_state = "Revoked"]_vars

C2_Witness ==
    \E r \in Slots :
        /\ Granted(r) /\ rq[r].app_state = "Revoked"
        /\ rq[r].target = 2

\* C3: the guard never passes for an app that is in the revocation queue:
\* the request ends there with the pending-revocation error (or with the
\* failure of the read of the queue), having inserted nothing into the
\* config, appended no key and written no entry.
C3_PendingRevocationBlocks ==
    /\ [](\A r \in Slots :
            (IsDone(r) /\ rq[r].result = "PendingRevocation") =>
                /\ rq[r].effects = {}
                /\ rq[r].failed_at = "check_revocation")
    /\ [][\A r \in Slots :
            (rq[r].pc = "resolve" /\ Moves(r)
                /\ "queue" \notin rq[r].joined
                /\ rq'[r].joined # rq[r].joined \cup {"apps"}
                /\ rq[r].app \in revocationQueue) =>
                    /\ rq'[r].pc = "done"
                    /\ rq'[r].result \in {"PendingRevocation", "Infra"}
                    /\ rq'[r].effects = {}
                    /\ UNCHANGED Stores]_vars

C3_Witness ==
    \E r \in Slots : IsDone(r) /\ rq[r].result = "PendingRevocation"

\* C4: an app without a config record is NotAuthenticated; when a request
\* is granted at the end of the register pipeline the app is Authenticated,
\* and it stays so until its entry is removed from the access container.
C4_RegisteredIsAuthenticated ==
    /\ [](\A a \in Apps :
            registry[a] = NoKey => AppStateNow(a) = Ok("NotAuthenticated"))
    /\ [][\A r \in Slots :
            (Ends(r) /\ rq'[r].result = "AuthGranted"
                /\ rq'[r].app_state \in {"NotAuthenticated", "Revoked"}) =>
                    AppStateNow(rq[r].app)' = Ok("Authenticated")]_vars
    /\ [][\A a \in Apps :
            (AppStateNow(a) = Ok("Authenticated")
                /\ AppStateNow(a)' # Ok("Authenticated")) =>
                    /\ \A r \in Slots : ~Moves(r)
                    /\ accessContainer'[a].st # "live"]_vars

C4_Witness ==
    \E r \in Slots :
        /\ Granted(r) /\ rq[r].app_state = "NotAuthenticated"
        /\ AppStateNow(rq[r].app) = Ok("Authenticated")

\* a request that began after a failed registration of its app, was not
\* interleaved with another request or with the revocation, met no failure
\* of a collaborator and did not find its app pending revocation, has ended
AfterPartial(r) ==
    /\ IsDone(r) /\ rq[r].after_partial # "no"
    /\ rq[r].solo /\ ~rq[r].met_failure
    /\ rq[r].result \notin {"Infra", "NoSuchEntry", "PendingRevocation"}

\* C5 as stated: the next request for an app whose register pipeline failed
\* after the insert, run alone and without failures, finds the app Revoked,
\* mints no keys, inserts nothing, and is granted the keys of the record.
C5_AsStated ==
    \A r \in Slots :
        AfterPartial(r) =>
            /\ rq[r].result = "AuthGranted"
            /\ rq[r].app_state = "Revoked"
            /\ "reg" \notin rq[r].effects
            /\ rq[r].granted = registry[rq[r].app]

\* C5 amended: the next request for an app whose register pipeline failed
\* after the insert, run alone and without failures, mints no keys, inserts
\* nothing, and is granted the keys of the record; when the app had no entry
\* at its start it finds the app Revoked and runs the register pipeline;
\* when the app had an entry (written by a request that ran beside the
\* failed one) it finds the app Authenticated and runs the re-grant
\* pipeline.
C5_RetryReusesKeys ==
    \A r \in Slots :
        AfterPartial(r) =>
            /\ rq[r].result = "AuthGranted"
            /\ "reg" \notin rq[r].effects
            /\ rq[r].granted = registry[rq[r].app]
            /\ rq[r].after_partial = "no_entry" =>
                  /\ rq[r].app_state = "Revoked"
                  /\ {"key", "man"} \subseteq rq[r].effects
            /\ rq[r].after_partial = "entry" =>
                  /\ rq[r].app_state = "Authenticated"
                  /\ rq[r].effects =
                        IF rq[r].app_container THEN {"man"} ELSE {}

C5_Witness ==
    \E r \in Slots :
        /\ AfterPartial(r) /\ rq[r].result = "AuthGranted"
        /\ rq[r].after_partial = "entry"
        /\ rq[r].app_state = "Authenticated"
        /\ rq[r].app_container /\ rq[r].effects = {"man"}

\* C6: the keys of a config record never change once the record exists, and
\* every AuthGranted for the app carries exactly those keys.
C6_KeysImmutable ==
    /\ [][\A a \in Apps :
            registry[a] # NoKey => registry'[a] = registry[a]]_vars
    /\ [](\A r \in Slots : Granted(r) => rq[r].granted = registry[rq[r].app])
    /\ [](\A a \in Apps : issued[a] \subseteq {registry[a]} \ {NoKey})

C6_Witness ==
    \E r \in Slots, s \in Slots :
        /\ r # s /\ Granted(r) /\ Granted(s)
        /\ rq[r].app = rq[s].app
        /\ rq[r].app_state = "NotAuthenticated"
        /\ rq[s].app_state = "Revoked"

\* C7: a request granted for an Authenticated app without app_container has
\* inserted nothing into the config, appended no key and written no entry
\* (none of its steps changes the config, the key list or the access
\* container), and grants the keys of the record.
C7_RegrantReadOnly ==
    /\ [](\A r \in Slots :
            (Granted(r) /\ rq[r].app_state = "Authenticated"
                /\ ~rq[r].app_container) =>
                    /\ rq[r].effects = {}
                    /\ rq[r].granted = registry[rq[r].app])
    /\ [][\A r \in Slots :
            (Moves(r) /\ rq'[r].effects = {}) =>
                UNCHANGED << registry, authKeys, authKeysVersion,
                             accessContainer >>]_vars

C7_Witness ==
    \E r \in Slots :
        /\ Granted(r) /\ rq[r].app_state = "Authenticated"
        /\ ~rq[r].app_container
        /\ accessContainer[rq[r].app].st = "live"

\* C8 as stated: the write that ends a granted request for an
\* Authenticated app with app_container, made over the entry the app has
\* and with no collaborator having failed,
\* puts the entry one version further, with every container it held
\* unchanged, and with apps/<app_id>, the provisioned container and all five
\* permissions, added.
C8_AsStated ==
    [][\A r \in Slots :
        (/\ rq[r].pc = "uac_put" /\ rq[r].app_state = "Authenticated"
         /\ rq[r].app_container
         /\ Ends(r) /\ rq'[r].result = "AuthGranted"
         /\ accessContainer[rq[r].app].st = "live"
         /\ faults' = 0) =>
            LET a == rq[r].app
                old == accessContainer[a]
                new == accessContainer'[a]
                name == "apps/" \o a IN
            /\ new.st = "live"
            /\ new.ver = old.ver + 1
            /\ DOMAIN old.entry \cup {name} \subseteq DOMAIN new.entry
            /\ \A n \in DOMAIN old.entry \ {name} :
                  new.entry[n] = old.entry[n]
            /\ new.entry[name] =
                  [info |-> app_container_fetch(a), access |-> FullAccess]]_vars

\* C9: the first request of a run, for a never-seen app, with containers and
\* app_container, when it is granted: the config holds one record more (the
\* app's, with the granted keys), the key list is one version further than
\* the request read it, and the app's entry is new, at version 0, and holds
\* the requested containers with the requested permissions, and
\* apps/<app_id> with all five permissions; nothing else has changed.
C9_FirstRegistration ==
    [][\A r \in Slots :
        (Ends(r) /\ rq'[r].result = "AuthGranted" /\ started = 1
            /\ rq[r].app_state = "NotAuthenticated"
            /\ rq[r].containers # EmptyEntry /\ rq[r].app_container) =>
            LET a == rq[r].app
                known == IF registry[Bystander.app] = NoKey THEN << >>
                         ELSE << Bystander >>
                n == Len(known) IN
            /\ rq'[r].granted = n + 1
            /\ registry' = [b \in Apps |->
                              IF b = a THEN rq'[r].granted
                              ELSE IF n = 1 THEN 1 ELSE NoKey]
            /\ authKeysVersion' = rq[r].version + 1
            /\ authKeysVersion' = n + 1
            /\ authKeys' = 1..(n + 1)
            /\ accessContainer'[a] =
                  [st |-> "live", ver |-> 0,
                   entry |->
                      [c \in DOMAIN rq[r].containers \cup {"apps/" \o a} |->
                          IF c = "apps/" \o a
                          THEN [info |-> app_container_fetch(a),
                                access |-> FullAccess]
                          ELSE [info |-> ContainerInfo(c),
                                access |-> rq[r].containers[c]]]]
            /\ accessContainer[a].st = "none"
            /\ \A b \in Apps \ {a} :
                  accessContainer'[b] =
                      IF n = 1 THEN [st |-> "live", ver |-> 0,
                                     entry |-> EntryOf(Bystander)]
                      ELSE NoEntry]_vars

C9_Witness ==
    \E r \in Slots :
        /\ Granted(r) /\ started = 1
        /\ rq[r].app_state = "NotAuthenticated"
        /\ rq[r].containers # EmptyEntry /\ rq[r].app_container
        /\ registry[Bystander.app] = NoKey

\* C10: update_access_container writes at version 0 when its read of the
\* entry fails with no-such-entry and at the version read + 1 when the read
\* succeeds; when the read fails otherwise, or access_container fails
\* before it, the request ends with that error and has written nothing.
\* The write is made at that version, with the entry handed in, and touches
\* no other app's entry.
C10_TargetVersion ==
    /\ [][\A r \in Slots :
            (rq[r].pc \in {"uac_dir", "uac_read"} /\ Moves(r)) =>
                LET m == accessContainer[rq[r].app] IN
                /\ UNCHANGED accessContainer
                /\ \/ /\ rq[r].pc = "uac_dir" /\ rq'[r].pc = "uac_read"
                   \/ /\ rq[r].pc = "uac_read" /\ rq'[r].pc = "uac_put"
                      /\ rq'[r].target = IF m.st = "none" THEN 0 ELSE m.ver + 1
                   \/ /\ rq'[r].pc = "done"
                      /\ rq'[r].result \in {"Infra", "NoSuchEntry"}
                      /\ faults' = faults + 1
                      /\ rq'[r].failed_at = "uac_read"
                      /\ "man" \notin rq'[r].effects]_vars
    /\ [][\A r \in Slots :
            (rq[r].pc = "uac_put" /\ Moves(r)
                /\ accessContainer' # accessContainer) =>
                    accessContainer' =
                        [accessContainer EXCEPT ![rq[r].app] =
                            [st |-> "live", ver |-> rq[r].target,
                             entry |-> rq[r].perms]]]_vars

C10_Witness ==
    /\ rq["r1"].pc = "uac_put" /\ rq["r1"].target = 2
    /\ IsDone("r2") /\ rq["r2"].failed_at = "uac_read"

\* the entry of r's app is further than update_access_container read it
Advanced(r) ==
    LET m == accessContainer[rq[r].app] IN
    IF rq[r].res.ok THEN m.st # "none" /\ m.ver > rq[r].res.val.version
    ELSE m.st # "none"

\* C11: a request writes the access container in one step only, the put of
\* update_access_container, which ends the request; when the entry is
\* further than update_access_container read it, the put fails, the request
\* ends with the version conflict (or the failure of the call itself) and
\* without an AuthGranted, and the entry stays as it was written.
C11_OneWriteAttempt ==
    /\ [][\A r \in Slots :
            (Moves(r) /\ accessContainer' # accessContainer) =>
                rq[r].pc = "uac_put"]_vars
    /\ [][\A r \in Slots :
            (rq[r].pc = "uac_put" /\ Moves(r)) =>
                /\ rq'[r].pc = "done"
                /\ Advanced(r) =>
                      /\ rq'[r].result \in {"VersionConflict", "Infra"}
                      /\ rq'[r].failed_at = "uac_put"
                      /\ rq'[r].granted = NoKey
                      /\ UNCHANGED accessContainer]_vars

C11_Witness ==
    \E r \in Slots :
        /\ IsDone(r) /\ rq[r].result = "VersionConflict"
        /\ rq[r].failed_at = "uac_put"
        /\ accessContainer[rq[r].app].st = "live"

\* the effects a request has had when step `at` fails
EffectsBefore(r, at) ==
    LET reg == IF rq[r].app_state = "NotAuthenticated" THEN {"reg"} ELSE {}
        perms == IF rq[r].containers = EmptyEntry THEN {} ELSE {"perms"} IN
    CASE at \in {"list_auth_keys", "ins_auth_key"} -> reg
      [] at = "update_container_perms" -> reg \cup {"key"}
      [] at \in {"fetch", "uac_read", "uac_put"} ->
            IF rq[r].app_state = "Authenticated" THEN {}
            ELSE reg \cup {"key"} \cup perms
      [] at = "auth_granted" ->
            IF rq[r].app_state = "Authenticated"
            THEN (IF rq[r].app_container THEN {"man"} ELSE {})
            ELSE reg \cup {"key", "man"} \cup perms
      [] OTHER -> {}

\* C12: a request ends with AuthGranted after all the steps of its pipeline,
\* or with an error, without AuthGranted, having had the effects of the
\* steps before the one that failed and no other; a failed read never leads
\* to a write.
C12_FirstFailureEnds ==
    \A r \in Slots :
        /\ IsDone(r) =>
            \/ /\ rq[r].result = "AuthGranted"
               /\ rq[r].failed_at = "none"
               /\ rq[r].granted # NoKey
               /\ rq[r].effects =
                     IF rq[r].app_state = "Authenticated"
                     THEN (IF rq[r].app_container THEN {"man"} ELSE {})
                     ELSE EffectsBefore(r, "auth_granted")
            \/ /\ rq[r].result \notin {"AuthGranted", "none"}
               /\ rq[r].failed_at # "none"
               /\ rq[r].granted = NoKey
               /\ rq[r].effects = EffectsBefore(r, rq[r].failed_at)
        /\ rq[r].pc = "uac_put" =>
            rq[r].res.ok \/ rq[r].res.err = "NoSuchEntry"

C12_Witness ==
    \E r \in Slots :
        /\ IsDone(r) /\ rq[r].failed_at = "fetch"
        /\ rq[r].effects = {"reg", "key", "perms"}

\* C13: for an app of the config, app_state answers Authenticated when the
\* read of the entry gives an entry, Revoked when there is none or when the
\* lookup itself fails with no-such-entry (a failure of a collaborator, for
\* an app whose entry is there), and ends the request with the error of the
\* lookup when it fails otherwise: such a failure gives no state.
C13_AppStateClassifies ==
    [][\A r \in Slots :
        (/\ rq[r].pc \in {"app_state_dir", "app_state"} /\ Moves(r)
         /\ rq'[r].pc # "app_state") =>
            LET m == accessContainer[rq[r].app] IN
            /\ rq[r].apps[rq[r].app] # NoKey
            /\ rq'[r].app_state \in {"Authenticated", "Revoked", "none"}
            /\ rq'[r].app_state = "Authenticated" => m.st = "live"
            /\ rq'[r].app_state = "Revoked" =>
                  \/ m.st # "live" /\ faults' = faults
                  \/ faults' = faults + 1 /\ rq'[r].result = "none"
            /\ rq'[r].app_state = "none" =>
                  /\ faults' = faults + 1
                  /\ rq'[r].pc = "done"
                  /\ rq'[r].result = "Infra"
                  /\ rq'[r].failed_at = "app_state"]_vars

C13_Witness ==
    \E r \in Slots :
        /\ IsDone(r) /\ rq[r].failed_at = "app_state"
        /\ rq[r].result = "Infra" /\ rq[r].app_state = "none"

\* the steps of authenticate_new_app after the key list is written
AfterInsAuthKey ==
    {"update_container_perms", "fetch", "uac_dir", "uac_read", "uac_put"}

\* C14: a registering request writes the key list in one step only, the
\* ins_auth_key that follows its read of the version, at the version read
\* plus one and adding its own key; it has not written the key list before
\* that step and does not come back to it; it resolves permissions, fetches
\* the container and writes the entry only with the key in the list, and a
\* failed ins_auth_key is followed by no write of the entry.
C14_OneAppendBeforeTheRest ==
    /\ [](\A r \in Slots :
            /\ rq[r].pc \in {"list_auth_keys", "ins_auth_key"} =>
                  rq[r].effects \cap {"key", "perms", "man"} = {}
            /\ (/\ rq[r].app_state \in {"NotAuthenticated", "Revoked"}
                /\ \/ rq[r].pc \in AfterInsAuthKey
                   \/ rq[r].effects \cap {"perms", "man"} # {}) =>
                  "key" \in rq[r].effects
            /\ (IsDone(r) /\ rq[r].failed_at = "ins_auth_key") =>
                  rq[r].effects \cap {"key", "perms", "man"} = {})
    /\ [][\A r \in Slots :
            /\ (Moves(r) /\ << authKeys, authKeysVersion >>' #
                            << authKeys, authKeysVersion >>) =>
                  /\ rq[r].pc = "ins_auth_key"
                  /\ authKeysVersion' = rq[r].version + 1
                  /\ authKeys' = authKeys \cup {rq[r].keys}
            /\ (Moves(r) /\ rq[r].pc = "ins_auth_key") =>
                  /\ rq'[r].pc \in AfterInsAuthKey \cup {"done"}
                  /\ rq'[r].pc \in AfterInsAuthKey =>
                        /\ authKeysVersion' = rq[r].version + 1
                        /\ rq[r].keys \in authKeys'
            /\ (Moves(r) /\ rq'[r].pc = "ins_auth_key") =>
                  rq[r].pc = "list_auth_keys"
            /\ (Moves(r) /\ rq[r].pc \in AfterInsAuthKey) =>
                  rq'[r].pc \in AfterInsAuthKey \cup {"done"}]_vars

C14_Witness ==
    \E r \in Slots :
        /\ IsDone(r) /\ rq[r].failed_at = "ins_auth_key"
        /\ rq[r].result = "VersionConflict" /\ rq[r].effects = {"reg"}

\* C15: a registration that fails after its key went into the key list
\* leaves the key in the list and the app in the config.
C15_NoRollback ==
    \A r \in Slots :
        (IsDone(r) /\ rq[r].result # "AuthGranted" /\ "key" \in rq[r].effects) =>
            /\ registry[rq[r].app] # NoKey
            /\ registry[rq[r].app] \in authKeys

\* the key is in the key list and in the config and the app has no entry
C15_Witness ==
    \E r \in Slots :
        /\ IsDone(r) /\ rq[r].result # "AuthGranted"
        /\ rq[r].effects \in {{"reg", "key"}, {"reg", "key", "perms"}}
        /\ registry[rq[r].app] \in authKeys
        /\ accessContainer[rq[r].app].st = "none"

\* C16 as stated: a re-grant with app_container that reads the entry and
\* finds none, no collaborator failing, goes on to fetch the container with
\* an empty entry.
C16_AsStated ==
    [][\A r \in Slots :
        (/\ rq[r].pc = "regrant_read" /\ Moves(r)
         /\ accessContainer[rq[r].app].st # "live"
         /\ faults' = faults) =>
            /\ rq'[r].pc = "fetch"
            /\ rq'[r].perms = EmptyEntry]_vars

\* C17: an app with an entry in the access container is in the config, and a
\* request that is about to read or write the entry for update_access_container
\* has its app in the config.
C17_EntryImpliesRecord ==
    /\ \A a \in Apps :
          accessContainer[a].st = "live" => registry[a] # NoKey
    /\ \A r \in Slots :
          (rq[r].pc \in {"uac_dir", "uac_read", "uac_put"}
              \/ "man" \in rq[r].effects) =>
              registry[rq[r].app] # NoKey

C17_Witness ==
    \E r \in Slots :
        /\ Granted(r) /\ rq[r].effects = {"reg", "key", "man"}
        /\ accessContainer[rq[r].app].st = "live"
        /\ accessContainer[rq[r].app].ver = 0
        /\ registry[rq[r].app] = rq[r].granted

\* C18: no request ends with the logical error of authenticate's second
\* step (state Authenticated or Revoked, app not in the listed config).
C18_NoLogicalError ==
    \A r \in Slots :
        /\ rq[r].result # "Unexpected"
        /\ rq[r].failed_at # "prepare"
        /\ (Running(rq[r]) /\ rq[r].app_state \in {"Authenticated", "Revoked"}) =>
              rq[r].keys # NoKey

\* a request resolved as Revoked took its keys out of the config it listed
C18_Witness ==
    \E r \in Slots :
        /\ rq[r].pc = "list_auth_keys" /\ rq[r].app_state = "Revoked"
        /\ rq[r].keys # NoKey /\ rq[r].keys = registry[rq[r].app]

\* C19 as stated: the entry a re-grant with app_container writes holds
\* every container of the entry it replaces, with the same access.
C19_AsStated ==
    [][\A r \in Slots :
        (/\ rq[r].pc = "uac_put" /\ Moves(r)
         /\ rq[r].app_state = "Authenticated"
         /\ "man" \in rq'[r].effects
         /\ accessContainer[rq[r].app].st = "live") =>
            LET old == accessContainer[rq[r].app].entry
                new == accessContainer'[rq[r].app].entry IN
            \A n \in DOMAIN old :
                n \in DOMAIN new /\ new[n] = old[n]]_vars

\* C20 as stated: no request writes the config, the key list or the access
\* container for an app that is in the revocation queue.
C20_AsStated ==
    [][\A r \in Slots :
        (Moves(r) /\ rq'[r].effects \cap {"reg", "key", "man"} #
                     rq[r].effects \cap {"reg", "key", "man"}) =>
            rq[r].app \notin revocationQueue]_vars

====
